---- MODULE Spec2Model ----
(***************************************************************************)
(* Verification model of the PRAGENT anchored-pitch pipeline (pr_swarm).   *)
(*                                                                         *)
(* Python strings are modelled as sequences of characters.  A character is *)
(* a one-letter TLA+ string; a run of literal template text whose content  *)
(* is irrelevant to any check is one opaque character such as "<tension>". *)
(* Whitespace (" ", "\n") is always modelled character by character, so    *)
(* str.strip(), str.upper(), str.startswith() and len() are computed, not  *)
(* assumed.                                                                *)
(***************************************************************************)
EXTENDS Naturals, Integers, Sequences, FiniteSets, TLC

VARIABLES
    fn,        \* pure-function harness: the function under call
    phase,     \* pure-function harness: "ready" before the call, "returned" after
    piece,     \* LatestPieceAnalysis argument (or NoPiece)
    angle,     \* PrimaryAngle argument (or NoAngle)
    llm,       \* llm argument: shape of the generator's reply, "none" when llm is None
    ret,       \* the value returned (or the exception raised) by the call
    pc,        \* process_prospect: position of the coroutine
    agents,    \* process_prospect: the injected stage objects
    search,    \* ResearchAgent: search_client / llm configuration and their replies
    profile,   \* process_prospect local: profile
    analysis,  \* LatestPieceAnalysis obtained inside ResearchAgent.run (NoPiece if none)
    notes,     \* process_prospect local: notes
    pangle,    \* process_prospect local: angle
    result,    \* value returned by process_prospect, or the exception it raised
    calls,     \* stages invoked so far, in order
    hits,      \* pure-function harness: the results argument of _heuristic_from_results
    flow,      \* process_all_prospects: what the name process_prospect is bound to
    prospects, \* process_all_prospects: per prospect, what its stages will do
    concurrency, \* process_all_prospects: the concurrency argument
    sem,       \* value of the asyncio.Semaphore (free permits)
    tasks,     \* per prospect, the position of its handle_prospect task
    manifest,  \* the RunManifest
    outputs,   \* pitch files written, pitch_rows, research_rows, results
    runner,    \* position of process_all_prospects itself
    log,       \* history of the calls made on the manifest, in order
    again,     \* pure-function harness: the value returned by a repeated call
    clock,     \* event loop time, in seconds
    throttle,  \* SerpApiSearchClient: rate_limit, _lock, _last_request and its callers
    retry      \* retry_async: its arguments, locals and position

harnessVars == <<fn, phase, piece, angle, llm, ret, hits, again>>
pipeVars == <<pc, agents, search, profile, analysis, notes, pangle, result, calls>>
batchVars == <<flow, prospects, concurrency, sem, tasks, manifest, outputs, runner, log>>
utilVars == <<clock, throttle, retry>>
vars == <<harnessVars, pipeVars, batchVars, utilVars>>

----------------------------------------------------------------------------
(* Bounds *)

\* Largest number of blanks put in front of / behind a generated string.
MaxPad == 1

----------------------------------------------------------------------------
(* Python str primitives *)

\* Python None, for Optional[str] fields.
NoneVal == <<"<None>">>

WS == {" ", "\n"}

UpperMap == [a |-> "A", n |-> "N", e |-> "E", d |-> "D", s |-> "S", r |-> "R",
             c |-> "C", h |-> "H", i |-> "I", x |-> "X"]

UpperChar(c) == IF c \in DOMAIN UpperMap THEN UpperMap[c] ELSE c

\* str.upper()
RECURSIVE Upper(_)
Upper(s) == IF s = <<>> THEN <<>> ELSE <<UpperChar(Head(s))>> \o Upper(Tail(s))

RECURSIVE LStrip(_)
LStrip(s) == IF s # <<>> /\ Head(s) \in WS THEN LStrip(Tail(s)) ELSE s

RECURSIVE RStrip(_)
RStrip(s) == IF s # <<>> /\ s[Len(s)] \in WS THEN RStrip(SubSeq(s, 1, Len(s) - 1)) ELSE s

\* str.strip()
Strip(s) == RStrip(LStrip(s))

\* str.startswith(prefix)
StartsWith(s, prefix) ==
    /\ Len(prefix) <= Len(s)
    /\ SubSeq(s, 1, Len(prefix)) = prefix

\* Python truthiness of an Optional[str]
Truthy(s) == s # NoneVal /\ s # <<>>

\* a or b
Or(a, b) == IF Truthy(a) THEN a ELSE b

RECURSIVE Rep(_, _)
Rep(c, n) == IF n = 0 THEN <<>> ELSE <<c>> \o Rep(c, n - 1)

\* text.split("\n")[0]
RECURSIVE FirstLine(_)
FirstLine(s) ==
    IF s = <<>> \/ Head(s) = "\n" THEN <<>> ELSE <<Head(s)>> \o FirstLine(Tail(s))

NEEDS_RESEARCH == <<"N","E","E","D","S","_","R","E","S","E","A","R","C","H">>
needs_research == <<"n","e","e","d","s","_","r","e","s","e","a","r","c","h">>
NA == <<"N","/","A">>
na == <<"n","/","a">>

\* s with up to MaxPad blanks on either side
Padded(s) == { Rep(" ", l) \o s \o Rep(" ", r) : l \in 0..MaxPad, r \in 0..MaxPad }

PaddedAll(S) == UNION { Padded(s) : s \in S }

----------------------------------------------------------------------------
(* Schemas *)

Confidence == {"high", "medium", "low"}

\* Optional[HttpUrl] values.  "none" is None; "Url" is the URL object that
\* pydantic validation stores in the field (truthy, and without the methods
\* of str, so url.strip() raises AttributeError); "str" is a plain string put
\* there by attribute assignment, model_construct or a duck-typed caller.
NoUrl == [kind |-> "none", s |-> <<>>]
StrUrl(s) == [kind |-> "str", s |-> s]
UrlObj(s) == [kind |-> "Url", s |-> s]

HttpA == <<"http://", "a">>

\* latest_piece is None
NoPiece == [none |-> TRUE]

LatestPieceAnalysis(title, url, anchor, confidence, failure_reason) ==
    [title |-> title,
     url |-> url,
     publisher |-> <<"Y">>,
     editorial_tension |-> <<"<tension>">>,
     what_the_piece_left_open |-> <<"<left_open>">>,
     why_life_legally_single_fits |-> <<"<why_fits>">>,
     required_opening_anchor |-> anchor,
     confidence |-> confidence,
     failure_reason |-> failure_reason]

\* angle is None
NoAngle == [none |-> TRUE]

PrimaryAngle(one_sentence_angle, proof_points, confidence) ==
    [one_sentence_angle |-> one_sentence_angle,
     tension_hook |-> <<"<tension>">>,
     what_makes_it_new |-> <<"<why_now>">>,
     why_you |-> <<"<why_you>">>,
     why_us |-> <<"<why_us>">>,
     proof_points |-> proof_points,
     confidence |-> confidence]

ValidationResult(ok, reason) == [ok |-> ok, reason |-> reason, raised |-> NoneVal]

\* the call did not return: it raised exc
Raised(exc) == [ok |-> FALSE, reason |-> NoneVal, raised |-> <<exc>>]

----------------------------------------------------------------------------
(* orchestrator/validation.py *)

SentinelAnchors == {NEEDS_RESEARCH, NA}

\* check 2: latest_piece.confidence != "high"
confidence_low_only(latest_piece) == latest_piece.confidence = "low"
not_high_confidence(latest_piece) == latest_piece.confidence # "high"

\* the reason check 2 reports
confidence_reason(latest_piece) ==
    Or(latest_piece.failure_reason, <<"latest_piece_not_high_confidence">>)

\* check 3: not latest_piece.required_opening_anchor
anchor_missing(latest_piece) == ~Truthy(latest_piece.required_opening_anchor)

\* check 4: anchor.strip().upper() in {"NEEDS_RESEARCH", "N/A"}
anchor_is_sentinel_case_sensitive(latest_piece) ==
    Strip(latest_piece.required_opening_anchor) \in SentinelAnchors
anchor_is_sentinel(latest_piece) ==
    Upper(Strip(latest_piece.required_opening_anchor)) \in SentinelAnchors

\* check 5: title empty or "N/A" after strip().upper()
title_missing(latest_piece) ==
    LET title == Upper(Strip(Or(latest_piece.title, <<>>)))
    IN  title = <<>> \/ title = NA

\* check 6, first half: not latest_piece.url
url_falsy(latest_piece) ==
    latest_piece.url.kind = "none" \/ (latest_piece.url.kind = "str" /\ latest_piece.url.s = <<>>)

\* check 6, second half: latest_piece.url.strip().upper() == "N/A"
url_is_na(latest_piece) == Upper(Strip(latest_piece.url.s)) = NA

validate_anchor_anchor_first(latest_piece) ==
    IF latest_piece = NoPiece
    THEN ValidationResult(FALSE, <<"no_latest_piece_returned">>)
    ELSE IF anchor_missing(latest_piece)
    THEN ValidationResult(FALSE, <<"missing_required_opening_anchor">>)
    ELSE IF not_high_confidence(latest_piece)
    THEN ValidationResult(FALSE, confidence_reason(latest_piece))
    ELSE IF anchor_is_sentinel(latest_piece)
    THEN ValidationResult(FALSE, <<"invalid_required_opening_anchor">>)
    ELSE IF title_missing(latest_piece)
    THEN ValidationResult(FALSE, <<"missing_latest_piece_title">>)
    ELSE IF url_falsy(latest_piece)
    THEN ValidationResult(FALSE, <<"missing_latest_piece_url">>)
    ELSE IF latest_piece.url.kind = "Url"
    THEN Raised("AttributeError")
    ELSE IF url_is_na(latest_piece)
    THEN ValidationResult(FALSE, <<"missing_latest_piece_url">>)
    ELSE ValidationResult(TRUE, NoneVal)

validate_anchor(latest_piece) ==
    IF latest_piece = NoPiece
    THEN ValidationResult(FALSE, <<"no_latest_piece_returned">>)
    ELSE IF not_high_confidence(latest_piece)
    THEN ValidationResult(FALSE, confidence_reason(latest_piece))
    ELSE IF anchor_missing(latest_piece)
    THEN ValidationResult(FALSE, <<"missing_required_opening_anchor">>)
    ELSE IF anchor_is_sentinel(latest_piece)
    THEN ValidationResult(FALSE, <<"invalid_required_opening_anchor">>)
    ELSE IF title_missing(latest_piece)
    THEN ValidationResult(FALSE, <<"missing_latest_piece_title">>)
    ELSE IF url_falsy(latest_piece)
    THEN ValidationResult(FALSE, <<"missing_latest_piece_url">>)
    ELSE IF latest_piece.url.kind = "Url"
    THEN Raised("AttributeError")
    ELSE IF url_is_na(latest_piece)
    THEN ValidationResult(FALSE, <<"missing_latest_piece_url">>)
    ELSE ValidationResult(TRUE, NoneVal)

MinAngleLen == 25

\* len(angle.one_sentence_angle.strip()) < 25
angle_too_thin_inclusive(a) == Len(Strip(a.one_sentence_angle)) <= MinAngleLen
angle_too_thin(a) == Len(Strip(a.one_sentence_angle)) < MinAngleLen

validate_angle(a) ==
    IF a = NoAngle
    THEN ValidationResult(FALSE, <<"no_angle_generated">>)
    ELSE IF a.confidence # "high"
    THEN ValidationResult(FALSE, <<"low_confidence_angle">>)
    ELSE IF angle_too_thin(a)
    THEN ValidationResult(FALSE, <<"angle_too_thin">>)
    ELSE ValidationResult(TRUE, NoneVal)

----------------------------------------------------------------------------
(* agents/pitch_agent.py *)

\* the three-backquote code fence, one character of the model
Fence == "<fence>"
FenceTags == {"markdown", "md", "text"}

\* re.sub: a leading fence, an optional language tag, then whitespace
strip_opening_fence(s) ==
    IF s # <<>> /\ Head(s) = Fence
    THEN LET t == Tail(s)
         IN  LStrip(IF t # <<>> /\ Head(t) \in FenceTags THEN Tail(t) ELSE t)
    ELSE s

\* re.sub: whitespace and a fence at the end
strip_closing_fence(s) ==
    IF s # <<>> /\ s[Len(s)] = Fence
    THEN RStrip(SubSeq(s, 1, Len(s) - 1))
    ELSE s

strip_fences(s) == Strip(strip_closing_fence(strip_opening_fence(Strip(s))))

RefusalHeading == <<"#", " ">> \o NEEDS_RESEARCH

RefusalNoPiece ==
    RefusalHeading \o <<"\n", "\n", "<could not reliably identify a recent piece>", "\n", "\n",
                        "<why this matters>", "\n", "<please provide a recent article URL>",
                        "\n", "\n">>

RefusalNoAnchor ==
    RefusalHeading \o <<"\n", "\n", "<Missing required opening anchor>", "\n", "\n">>

AddProofPoint == <<"(add proof point)">>

\* the f-string returned when llm is None
PitchTemplate(opening, latest_piece, primary_angle) ==
    opening
    \o <<"\n", "\n", "<reaching out with a follow-up angle: **>">>
    \o latest_piece.editorial_tension \o <<"**.", "\n", "\n", "**The story:** ">>
    \o primary_angle.one_sentence_angle \o <<"\n", "**Why now:** ">>
    \o primary_angle.what_makes_it_new \o <<"\n", "**Why it fits your beat:** ">>
    \o primary_angle.why_you \o <<"\n", "\n", "<A quick note on why us: >">>
    \o primary_angle.why_us \o <<"\n", "\n", "Proof points:", "\n", "-", " ">>
    \o (IF primary_angle.proof_points # <<>>
        THEN primary_angle.proof_points[1] ELSE AddProofPoint)
    \o <<"\n", "-", " ">>
    \o (IF Len(primary_angle.proof_points) > 1
        THEN primary_angle.proof_points[2] ELSE AddProofPoint)
    \o <<"\n", "\n", "<would a 10-minute chat be useful this week?>", "\n", "\n",
         "<signature>", "\n">>

\* llm: NoneVal when llm is None, otherwise the text the generator returns
draft_pitch_markdown(latest_piece, primary_angle, llm_reply) ==
    IF latest_piece.confidence = "low" \/ latest_piece.title = NA
    THEN RefusalNoPiece
    ELSE LET opening == Strip(latest_piece.required_opening_anchor)
         IN  IF opening = <<>>
             THEN RefusalNoAnchor
             ELSE IF llm_reply = NoneVal
             THEN PitchTemplate(opening, latest_piece, primary_angle)
             ELSE strip_fences(llm_reply) \o <<"\n">>

SubjectLimit == 180

PitchDraft(subject_line, body) ==
    [kind |-> "PitchDraft", subject_line |-> subject_line, greeting |-> <<>>,
     body |-> body, closing |-> <<>>]

PitchDraftingAgentV2_run(latest_piece, a, llm_reply) ==
    LET md == draft_pitch_markdown(latest_piece, a, llm_reply)
        subject == <<"Follow-up to: ">> \o latest_piece.title
    IN  PitchDraft(SubSeq(subject, 1, IF Len(subject) < SubjectLimit
                                      THEN Len(subject) ELSE SubjectLimit),
                   Strip(md))

----------------------------------------------------------------------------
(* agents/research_agent.py *)

\* re.sub(r"\s+", " ", ...): every run of whitespace becomes one blank
RECURSIVE CollapseWS(_)
CollapseWS(s) ==
    IF s = <<>> THEN <<>>
    ELSE IF Head(s) \in WS
    THEN <<" ">> \o CollapseWS(LStrip(s))
    ELSE <<Head(s)>> \o CollapseWS(Tail(s))

\* _clean(s)
clean(s) == CollapseWS(Strip(Or(s, <<>>)))

UrlSchemes == {"http://", "https://"}

\* what pydantic accepts for an HttpUrl field: a scheme and a host
IsHttpUrl(s) ==
    /\ Len(s) >= 2
    /\ Head(s) \in UrlSchemes
    /\ \A k \in 2..Len(s) : s[k] \notin WS \cup UrlSchemes

\* one normalized search record
SearchResult(title, link, source) ==
    [title |-> title, link |-> link, source |-> source, snippet |-> <<"<snippet>">>]

\* the value a call produces: either it returns v or it raises exc
Return(v) == [raised |-> NoneVal, value |-> v]
Raise(exc) == [raised |-> <<exc>>, value |-> NoneVal]

\* search_client kinds: "search" has a search() method, "legacy" has only an
\* api_key, "nokey" has neither.  fault: "raises" (the call raises),
\* "http_error" (status code other than 200), "ok".
search_articles(client) ==
    IF client.kind = "search"
    THEN Return(IF client.fault = "raises" THEN <<>> ELSE client.results)
    ELSE IF client.kind = "nokey"
    THEN Return(<<>>)
    ELSE IF client.fault = "raises"
    THEN Raise("RequestException")
    ELSE IF client.fault = "http_error"
    THEN Return(<<>>)
    ELSE Return(client.results)

NoArticlesReason == <<"No real articles found for this writer.">>
MissingFieldsReason == <<"Missing title/url/publisher in search results; cannot anchor safely.">>
LlmInvalidReason == <<"LLM output invalid or unparsable">>

\* the f-string of the opening line
OpeningAnchor(prospect_name, title) ==
    <<"H", "i", " ">> \o prospect_name
        \o <<" ", "<dash>", " ", "<I just read your recent piece>", " ", "\"">>
        \o title \o <<"\"", " ", "<and had a follow-up idea.>">>

\* LatestPieceAnalysis(...): pydantic validates url and raises ValidationError
NewLatestPieceAnalysis(title, url, publisher, anchor, confidence, failure_reason) ==
    IF ~IsHttpUrl(url)
    THEN Raise("ValidationError")
    ELSE Return([LatestPieceAnalysis(title, UrlObj(url), anchor, confidence, failure_reason)
                    EXCEPT !.publisher = publisher])

heuristic_from_results(results, prospect_name) ==
    IF results = <<>>
    THEN NewLatestPieceAnalysis(NA, NA, NA, NEEDS_RESEARCH, "low", NoArticlesReason)
    ELSE LET r0 == results[1]
             title == clean(r0.title)
             url == Or(Strip(Or(r0.link, <<>>)), NA)
             publisher == clean(Or(r0.source, NA))
             has_real_anchor == title # <<>> /\ url # NA /\ Upper(publisher) # NA
         IN  NewLatestPieceAnalysis(
                 Or(title, NA), url, publisher,
                 IF has_real_anchor THEN OpeningAnchor(prospect_name, title)
                 ELSE NEEDS_RESEARCH,
                 IF has_real_anchor THEN "high" ELSE "low",
                 IF has_real_anchor THEN NoneVal ELSE MissingFieldsReason)

\* the caller's list after _heuristic_from_results(results, ...): the function
\* reads results[0] with .get and assigns nothing
results_consumed(results) == IF results = <<>> THEN results ELSE Tail(results)
results_kept(results) == results

\* llm: [mode, parsed].  mode "none": llm is None; "raises": the generator
\* raises; "invalid": its reply does not parse or fails the schema; "valid":
\* the reply parses to the schema-valid analysis `parsed`.
find_latest_piece_analysis(prospect_name, client, generator) ==
    LET found == search_articles(client)
    IN  IF found.raised # NoneVal THEN found
        ELSE IF generator.mode = "none"
        THEN heuristic_from_results(found.value, prospect_name)
        ELSE IF generator.mode = "raises"
        THEN Raise("RuntimeError")
        ELSE IF generator.mode = "valid"
        THEN Return(generator.parsed)
        ELSE LET fallback == heuristic_from_results(found.value, prospect_name)
             IN  IF fallback.raised # NoneVal THEN fallback
                 ELSE Return([fallback.value EXCEPT !.confidence = "low",
                                                    !.failure_reason = LlmInvalidReason])

----------------------------------------------------------------------------
(* agents/research.py *)

ResearchNotes(summary, angles) == [summary |-> summary, angles |-> angles]

NeedsResearchNotes(detail) ==
    ResearchNotes(NEEDS_RESEARCH \o <<":", " ">> \o detail, << NEEDS_RESEARCH >>)

LatestPieceLabel == <<"L", "A", "T", "E", "S", "T", "_", "P", "I", "E", "C", "E", ":", " ", "\"">>

\* step 6: the summary that carries the analysis to the later stages
BridgeSummary(a) ==
    LatestPieceLabel \o a.title \o <<"\"", " ", "(">> \o a.publisher \o <<")", "\n">>
        \o <<"URL: ">> \o (IF a.url.kind = "none" \/ (a.url.kind = "str" /\ a.url.s = <<>>)
                           THEN NA ELSE a.url.s)
        \o <<"\n", "<THESIS>", "\n", "EDITORIAL_TENSION: ">> \o a.editorial_tension
        \o <<"\n", "LEFT_OPEN: ">> \o a.what_the_piece_left_open
        \o <<"\n", "REQUIRED_OPENING_ANCHOR:", "\n">>
        \o Or(Strip(a.required_opening_anchor), NEEDS_RESEARCH)

BridgeAngles(a) ==
    << <<"<Follow-up on>">> \o a.title >>
        \o (IF Truthy(a.editorial_tension) /\ a.editorial_tension # NA
            THEN << <<"<Lean into the tension: >">> \o a.editorial_tension >> ELSE <<>>)
        \o (IF Truthy(a.what_the_piece_left_open) /\ a.what_the_piece_left_open # NA
            THEN << <<"<Answer the open loop: >">> \o a.what_the_piece_left_open >> ELSE <<>>)

\* steps 4-6 of ResearchAgent.run; found: the outcome of find_latest_piece_analysis
ResearchAgent_notes_trusting_confidence(found) ==
    IF found.raised # NoneVal
    THEN NeedsResearchNotes(<<"<error while identifying latest piece>">> \o found.raised)
    ELSE IF Truthy(found.value.failure_reason)
    THEN NeedsResearchNotes(found.value.failure_reason)
    ELSE ResearchNotes(BridgeSummary(found.value), BridgeAngles(found.value))

ResearchAgent_notes(found) ==
    IF found.raised # NoneVal
    THEN NeedsResearchNotes(<<"<error while identifying latest piece>">> \o found.raised)
    ELSE IF Truthy(found.value.failure_reason)
    THEN NeedsResearchNotes(found.value.failure_reason)
    ELSE IF found.value.confidence = "low"
    THEN NeedsResearchNotes(<<"<latest piece could not be confidently identified>">>)
    ELSE ResearchNotes(BridgeSummary(found.value), BridgeAngles(found.value))

NoSearchClientNotes == NeedsResearchNotes(<<"<search client is not configured>">>)

\* ResearchAgent.run: the notes it returns, and the analysis it obtained on the way
ResearchAgent_run(prospect_name, client, generator) ==
    IF client.kind = "none"
    THEN [analysis |-> NoPiece, notes |-> NoSearchClientNotes]
    ELSE LET found == find_latest_piece_analysis(prospect_name, client, generator)
         IN  [analysis |-> IF found.raised # NoneVal THEN NoPiece ELSE found.value,
              notes |-> ResearchAgent_notes(found)]

----------------------------------------------------------------------------
(* orchestrator/angle_builder.py *)

\* len("A singles-first follow-up answering what your piece left open: ")
AnglePrefixLen == 63

AnglePrefix_blank == Rep(" ", AnglePrefixLen)
AnglePrefix == Rep("a", AnglePrefixLen - 1) \o <<" ">>

RepoProofPoints == << <<"<Singles-by-choice trend signals>">>, <<"<Audience insights>">> >>

WhyNow == <<"<A timely shift>">>
ParseFailedNote == <<"<LLM JSON parse failed; using deterministic fallback>">>

\* tension_hook=latest_piece.editorial_tension
tension_hook_generic(latest_piece) == <<"<tension>">>
tension_hook(latest_piece) == latest_piece.editorial_tension

\* the PrimaryAngle(...) both the deterministic branch and the except branch build
GroundedAngle(latest_piece, what_makes_it_new, confidence) ==
    [PrimaryAngle(AnglePrefix \o latest_piece.what_the_piece_left_open,
                  RepoProofPoints, confidence)
        EXCEPT !.tension_hook = tension_hook(latest_piece),
               !.what_makes_it_new = what_makes_it_new,
               !.why_you = <<"<Direct continuation of your piece: >">> \o latest_piece.title,
               !.why_us = latest_piece.why_life_legally_single_fits]

\* json.dumps(payload): latest_piece.model_dump() keeps a validated url as a
\* Url object, which json cannot serialize (TypeError); None and str can be
payload_serializable(latest_piece) == latest_piece.url.kind # "Url"

\* if angle.confidence.lower() != "high": angle.confidence = "high"
normalized_as_stated(parsed) == parsed
normalized(parsed) == [parsed EXCEPT !.confidence = "high"]

\* generator: [mode, parsed] as for find_latest_piece_analysis
build_primary_angle(latest_piece, generator) ==
    IF generator.mode = "none"
    THEN Return(GroundedAngle(latest_piece, WhyNow, "high"))
    ELSE IF ~payload_serializable(latest_piece)
    THEN Raise("TypeError")
    ELSE IF generator.mode = "raises"
    THEN Raise("RuntimeError")
    ELSE IF generator.mode = "valid"
    THEN Return(normalized(generator.parsed))
    ELSE Return(GroundedAngle(latest_piece, ParseFailedNote, "low"))

----------------------------------------------------------------------------
(* Inputs of the pure functions *)

RealAnchor == <<"H", "i", " ", "x">>
TwoLineAnchor == <<"H", "i", "\n", "x">>

AnchorPool ==
    PaddedAll({<<>>, NEEDS_RESEARCH, RealAnchor}) \cup {needs_research, NA, na, TwoLineAnchor}
TitlePool == PaddedAll({NA, <<"X">>}) \cup {<<>>, <<" ">>, na}
UrlPool ==
    {NoUrl, UrlObj(HttpA), StrUrl(<<>>), StrUrl(na)}
        \cup { StrUrl(s) : s \in PaddedAll({NA, HttpA}) }
ReasonPool == {NoneVal, <<>>, <<"No real articles found for this writer.">>}

AnchorGateInputs ==
    {NoPiece} \cup
    { LatestPieceAnalysis(t, u, a, c, f) :
        t \in TitlePool, u \in UrlPool, a \in AnchorPool, c \in Confidence, f \in ReasonPool }

SentencePool == PaddedAll({ Rep("x", n) : n \in {0, 5, MinAngleLen - 1, MinAngleLen, MinAngleLen + 1} })
ProofPool == {<<>>, << <<"p1">> >>, << <<"p1">>, <<"p2">> >>}

AngleGateInputs ==
    {NoAngle} \cup { PrimaryAngle(s, <<>>, c) : s \in SentencePool, c \in Confidence }

ComposerPieces ==
    { LatestPieceAnalysis(t, StrUrl(HttpA), a, c, NoneVal) :
        t \in {<<>>, NA, na, <<"X">>}, a \in AnchorPool, c \in Confidence }

ComposerAngles == { PrimaryAngle(Rep("x", MinAngleLen), pp, "high") : pp \in ProofPool }

\* what the generator sends back; "none" stands for llm=None
LlmShapes == {"none", "anchored", "fenced", "unanchored", "blank"}

GeneratedBody == <<"<generated pitch>", "\n", "<generated call to action>">>

LlmReply(shape, latest_piece) ==
    LET anchored == latest_piece.required_opening_anchor \o <<"\n", "\n">> \o GeneratedBody
    IN  CASE shape = "none" -> NoneVal
          [] shape = "anchored" -> anchored
          [] shape = "fenced" -> <<Fence, "markdown", "\n">> \o anchored \o <<"\n", Fence, "\n">>
          [] shape = "unanchored" -> GeneratedBody
          [] shape = "blank" -> <<" ">>

\* analyses handed to build_primary_angle
AnglePieces ==
    { [LatestPieceAnalysis(t, u, a, c, NoneVal)
          EXCEPT !.editorial_tension = e, !.what_the_piece_left_open = o] :
        t \in {NA, <<"X">>}, u \in {NoUrl, UrlObj(HttpA), StrUrl(HttpA)},
        a \in {NEEDS_RESEARCH, RealAnchor}, c \in Confidence,
        e \in {NA, <<"<tension>">>, <<"<stakes of the piece>">>},
        o \in {<<>>, NA, <<"<left_open>">>} }

\* schema-valid angles a generator's reply can parse to
ParsedAngles ==
    { PrimaryAngle(Rep("x", n), <<>>, c) : n \in {5, MinAngleLen}, c \in Confidence }

\* prospect.name
ProspectName == <<"x">>

\* what a search hands to _heuristic_from_results
ResultPool ==
    { SearchResult(t, l, src) :
        t \in {<<>>, <<"X">>, NA},
        l \in {<<>>, HttpA, <<"n", "o", "t">>},
        src \in {<<>>, <<"Y">>, na} }

ResultLists ==
    {<<>>} \cup { <<r>> : r \in ResultPool }
        \cup { <<SearchResult(<<>>, HttpA, <<"Y">>), SearchResult(<<"X">>, HttpA, <<"Y">>)>> }

SearchClient(kind, fault, results) == [kind |-> kind, fault |-> fault, results |-> results]

SearchClients ==
    {SearchClient("none", "ok", <<>>), SearchClient("nokey", "ok", <<>>),
     SearchClient("search", "raises", <<>>), SearchClient("legacy", "raises", <<>>),
     SearchClient("legacy", "http_error", <<>>)}
        \cup { SearchClient(k, "ok", rs) : k \in {"search", "legacy"}, rs \in ResultLists }

LlmModes == {"none", "valid", "invalid", "raises"}

SearchConfigs ==
    { [client |-> c, llm |-> m] : c \in SearchClients, m \in LlmModes }

\* schema-valid analyses a generator's reply can parse to
LlmAnalyses ==
    { LatestPieceAnalysis(t, u, a, c, f) :
        t \in {NA, <<"X">>}, u \in {NoUrl, UrlObj(HttpA)},
        a \in {<<>>, NEEDS_RESEARCH, RealAnchor}, c \in Confidence,
        f \in {NoneVal, <<"<reason given by the generator>">>} }

----------------------------------------------------------------------------
(* State of a run of process_prospect that has not started *)

NoProfile == [none |-> TRUE]
NoNotes == [none |-> TRUE]
NoResult == [none |-> TRUE]
NoAgents == [none |-> TRUE]
NoSearch == [none |-> TRUE]

StagesIdle ==
    /\ pc = "idle"
    /\ agents = NoAgents
    /\ profile = NoProfile
    /\ analysis = NoPiece
    /\ notes = NoNotes
    /\ pangle = NoAngle
    /\ result = NoResult
    /\ calls = <<>>

PipeIdle == StagesIdle /\ search = NoSearch

----------------------------------------------------------------------------
(* schemas/models.py: RunManifest *)

\* Optional[datetime]: None, or the reading of the clock at time t
Unset == [set |-> FALSE, at |-> 0]
At(t) == [set |-> TRUE, at |-> t]

ManifestError(prospect_name, stage, message) ==
    [prospect_name |-> prospect_name, stage |-> stage, message |-> message]

\* RunManifest(total_prospects=n)
RunManifest(n) ==
    [total_prospects |-> n, successful |-> 0, errors |-> <<>>, finished_at |-> Unset]

\* self.successful += 1
record_success_from_start(self) == [self EXCEPT !.successful = 1]
record_success(self) == [self EXCEPT !.successful = @ + 1]

\* self.errors.append(ManifestError(...))
record_error_replacing(self, prospect_name, stage, message) ==
    [self EXCEPT !.errors = << ManifestError(prospect_name, stage, message) >>]

record_error(self, prospect_name, stage, message) ==
    [self EXCEPT !.errors = Append(@, ManifestError(prospect_name, stage, message))]

\* self.finished_at = datetime.utcnow()
finish(self, now) == [self EXCEPT !.finished_at = At(now)]

----------------------------------------------------------------------------
(* State of a batch run that has not started *)

NoManifest == [none |-> TRUE]
NoOutputs == [none |-> TRUE]

BatchIdle ==
    /\ flow = "idle"
    /\ prospects = <<>>
    /\ concurrency = 0
    /\ sem = 0
    /\ tasks = <<>>
    /\ outputs = NoOutputs
    /\ runner = "idle"
    /\ log = <<>>

----------------------------------------------------------------------------
(* State of the rate gate and of retry_async when they are not in use *)

NoThrottle == [none |-> TRUE]
NoRetry == [none |-> TRUE]

UtilIdle ==
    /\ clock = 0
    /\ throttle = NoThrottle
    /\ retry = NoRetry

----------------------------------------------------------------------------
(* The pure functions, each applied once to an input *)

ComposerFns == {"draft_pitch_markdown", "PitchDraftingAgentV2.run"}

ManifestFns == {"record_success", "record_error", "finish"}

\* manifests a method can be called on: fresh, part-filled, sealed
ManifestPool ==
    { [RunManifest(2) EXCEPT !.successful = k, !.errors = es, !.finished_at = f] :
        k \in 0..1,
        es \in {<<>>, << ManifestError(<<"x">>, "pipeline", <<"<message>">>) >>},
        f \in {Unset, At(1)} }

InitCalls ==
    /\ phase = "ready"
    /\ ret = NoneVal
    /\ again = NoneVal
    /\ \/ /\ fn = "validate_anchor" /\ piece \in AnchorGateInputs /\ angle = NoAngle
          /\ llm = "none" /\ hits = <<>> /\ manifest = NoManifest /\ search = NoSearch
       \/ /\ fn = "validate_angle" /\ piece = NoPiece /\ angle \in AngleGateInputs
          /\ llm = "none" /\ hits = <<>> /\ manifest = NoManifest /\ search = NoSearch
       \/ /\ fn \in ComposerFns /\ piece \in ComposerPieces /\ angle \in ComposerAngles
          /\ llm \in LlmShapes /\ hits = <<>> /\ manifest = NoManifest /\ search = NoSearch
       \/ /\ fn = "heuristic_from_results" /\ piece = NoPiece /\ angle = NoAngle
          /\ llm = "none" /\ hits \in ResultLists /\ manifest = NoManifest
          /\ search = NoSearch
       \/ /\ fn \in ManifestFns /\ piece = NoPiece /\ angle = NoAngle
          /\ llm = "none" /\ hits = <<>> /\ manifest \in ManifestPool /\ search = NoSearch
       \* find_latest_piece_analysis: piece is what the generator's reply parses to
       \/ /\ fn = "find_latest_piece_analysis" /\ search \in SearchConfigs
          /\ search.client.kind # "none"
          /\ piece \in (IF search.llm = "valid" THEN LlmAnalyses ELSE {NoPiece})
          /\ angle = NoAngle /\ llm = search.llm /\ hits = <<>> /\ manifest = NoManifest
       \* build_primary_angle: angle is what the generator's reply parses to
       \/ /\ fn = "build_primary_angle" /\ piece \in AnglePieces /\ llm \in LlmModes
          /\ angle \in (IF llm = "valid" THEN ParsedAngles ELSE {NoAngle})
          /\ hits = <<>> /\ manifest = NoManifest /\ search = NoSearch
    /\ StagesIdle
    /\ BatchIdle
    /\ UtilIdle

CallValidateAnchor ==
    /\ fn = "validate_anchor" /\ phase = "ready"
    /\ ret' = validate_anchor(piece)
    /\ phase' = "returned"
    /\ UNCHANGED <<fn, piece, angle, llm, hits, again, pipeVars, batchVars, utilVars>>

CallValidateAngle ==
    /\ fn = "validate_angle" /\ phase = "ready"
    /\ ret' = validate_angle(angle)
    /\ phase' = "returned"
    /\ UNCHANGED <<fn, piece, angle, llm, hits, again, pipeVars, batchVars, utilVars>>

CallDraftPitchMarkdown ==
    /\ fn = "draft_pitch_markdown" /\ phase = "ready"
    /\ ret' = draft_pitch_markdown(piece, angle, LlmReply(llm, piece))
    /\ phase' = "returned"
    /\ UNCHANGED <<fn, piece, angle, llm, hits, again, pipeVars, batchVars, utilVars>>

CallPitchAgentRun ==
    /\ fn = "PitchDraftingAgentV2.run" /\ phase = "ready"
    /\ ret' = PitchDraftingAgentV2_run(piece, angle, LlmReply(llm, piece))
    /\ phase' = "returned"
    /\ UNCHANGED <<fn, piece, angle, llm, hits, again, pipeVars, batchVars, utilVars>>

\* _heuristic_from_results(results, prospect_name)
CallHeuristicFromResults ==
    /\ fn = "heuristic_from_results" /\ phase = "ready"
    /\ ret' = heuristic_from_results(hits, ProspectName)
    /\ hits' = results_kept(hits)
    /\ phase' = "returned"
    /\ UNCHANGED <<fn, piece, angle, llm, again, pipeVars, batchVars, utilVars>>

\* the same call made once more on the same list
CallHeuristicFromResultsAgain ==
    /\ fn = "heuristic_from_results" /\ phase = "returned"
    /\ again' = heuristic_from_results(hits, ProspectName)
    /\ hits' = results_kept(hits)
    /\ phase' = "returned again"
    /\ UNCHANGED <<fn, piece, angle, llm, ret, pipeVars, batchVars, utilVars>>

\* find_latest_piece_analysis(prospect_name=..., search_client=..., llm=...)
CallFindLatestPieceAnalysis ==
    /\ fn = "find_latest_piece_analysis" /\ phase = "ready"
    /\ ret' = find_latest_piece_analysis(ProspectName, search.client,
                                         [mode |-> search.llm, parsed |-> piece])
    /\ phase' = "returned"
    /\ UNCHANGED <<fn, piece, angle, llm, hits, again, pipeVars, batchVars, utilVars>>

\* build_primary_angle(latest_piece=..., brand_assets_hint=..., llm=...)
CallBuildPrimaryAngle ==
    /\ fn = "build_primary_angle" /\ phase = "ready"
    /\ ret' = build_primary_angle(piece, [mode |-> llm, parsed |-> angle])
    /\ phase' = "returned"
    /\ UNCHANGED <<fn, piece, angle, llm, hits, again, pipeVars, batchVars, utilVars>>

\* the manifest's methods, called on a manifest in any condition
CallRecordSuccess ==
    /\ fn = "record_success" /\ phase = "ready"
    /\ manifest' = record_success(manifest)
    /\ phase' = "returned"
    /\ UNCHANGED <<fn, piece, angle, llm, ret, hits, again, pipeVars, utilVars>>
    /\ UNCHANGED <<flow, prospects, concurrency, sem, tasks, outputs, runner, log>>

CallRecordError ==
    /\ fn = "record_error" /\ phase = "ready"
    /\ manifest' = record_error(manifest, <<"x", "x">>, "pipeline", <<"<message>">>)
    /\ phase' = "returned"
    /\ UNCHANGED <<fn, piece, angle, llm, ret, hits, again, pipeVars, utilVars>>
    /\ UNCHANGED <<flow, prospects, concurrency, sem, tasks, outputs, runner, log>>

\* datetime.utcnow() does not go back; it may read the same instant twice
CallFinish ==
    /\ fn = "finish" /\ phase = "ready"
    /\ \E now \in {1, 2} : manifest' = finish(manifest, now)
    /\ phase' = "returned"
    /\ UNCHANGED <<fn, piece, angle, llm, ret, hits, again, pipeVars, utilVars>>
    /\ UNCHANGED <<flow, prospects, concurrency, sem, tasks, outputs, runner, log>>

NextCalls ==
    \/ CallValidateAnchor
    \/ CallValidateAngle
    \/ CallDraftPitchMarkdown
    \/ CallPitchAgentRun
    \/ CallHeuristicFromResults
    \/ CallHeuristicFromResultsAgain
    \/ CallFindLatestPieceAnalysis
    \/ CallBuildPrimaryAngle
    \/ CallRecordSuccess
    \/ CallRecordError
    \/ CallFinish

SpecCalls == InitCalls /\ [][NextCalls]_vars

Returned(f) == fn = f /\ phase = "returned"

----------------------------------------------------------------------------
(* orchestrator/workflow.py: process_prospect *)

\* the profile the discovery agent returns
Profile ==
    [prospect_name |-> ProspectName, matched_name |-> ProspectName, email |-> NA,
     citations |-> <<>>]

\* a profile with one Citation; its url is a validated HttpUrl, not a str
CitedProfile == [Profile EXCEPT !.citations = << [url |-> UrlObj(HttpA)] >>]

\* The stage objects handed to process_prospect.  angle_builder and
\* pitch_agent are either this repository's classes or a caller's object
\* ("double") that accepts the keyword arguments process_prospect passes.
AgentWirings ==
    [discovery : {"returns", "raises"},
     angle_builder : {"AngleBuilder", "double"},
     pitch_agent : {"PitchDraftingAgentV2", "PitchDraftingAgent", "double"}]

\* what a caller's angle builder hands back
DoubleAngles ==
    {NoAngle} \cup { PrimaryAngle(Rep("x", n), <<>>, c) : n \in {5, MinAngleLen}, c \in Confidence }

Refusal(reason) == [status |-> NEEDS_RESEARCH, reason |-> reason]

Returns(prof, n, pitch) == [raised |-> NoneVal, profile |-> prof, notes |-> n, pitch |-> pitch]
Raises(exc) == [raised |-> <<exc>>]

Init ==
    /\ fn = "process_prospect" /\ phase = "ready" /\ piece = NoPiece /\ angle = NoAngle
    /\ llm = "none" /\ ret = NoneVal
    /\ pc = "discovery"
    /\ agents \in AgentWirings
    /\ search \in SearchConfigs
    /\ profile = NoProfile
    /\ analysis = NoPiece
    /\ notes = NoNotes
    /\ pangle = NoAngle
    /\ result = NoResult
    /\ calls = <<>>
    /\ hits = <<>>
    /\ again = NoneVal
    /\ manifest = NoManifest
    /\ BatchIdle
    /\ UtilIdle

\* profile = await discovery_agent.run(prospect)
Discover_retrying ==
    /\ pc = "discovery"
    /\ calls' = Append(calls, "discovery")
    /\ IF agents.discovery = "raises"
       THEN /\ pc' = IF calls = <<>> THEN "discovery" ELSE "raised"
            /\ result' = IF calls = <<>> THEN result ELSE Raises("ConnectionError")
            /\ UNCHANGED profile
       ELSE /\ pc' = "research"
            /\ profile' = Profile
            /\ UNCHANGED result
    /\ UNCHANGED <<harnessVars, batchVars, utilVars, agents, search, analysis, notes, pangle>>

Discover ==
    /\ pc = "discovery"
    /\ calls' = Append(calls, "discovery")
    /\ IF agents.discovery = "raises"
       THEN /\ pc' = "raised"
            /\ result' = Raises("ConnectionError")
            /\ UNCHANGED profile
       ELSE /\ pc' = "research"
            /\ profile' = Profile
            /\ UNCHANGED result
    /\ UNCHANGED <<harnessVars, batchVars, utilVars, agents, search, analysis, notes, pangle>>

\* notes = await research_agent.run(prospect=prospect, profile=profile)
Research ==
    /\ pc = "research"
    /\ calls' = Append(calls, "research")
    /\ \E parsed \in (IF search.llm = "valid" THEN LlmAnalyses ELSE {NoPiece}) :
         LET r == ResearchAgent_run(ProspectName, search.client,
                                    [mode |-> search.llm, parsed |-> parsed])
         IN  /\ analysis' = r.analysis
             /\ notes' = r.notes
    /\ pc' = "anchor_check"
    /\ UNCHANGED <<harnessVars, batchVars, utilVars, agents, search, profile, pangle, result>>

\* if notes.summary.startswith("NEEDS_RESEARCH"): return {...}
AnchorCheck_raising ==
    /\ pc = "anchor_check"
    /\ calls' = Append(calls, "anchor_check")
    /\ IF StartsWith(notes.summary, NEEDS_RESEARCH)
       THEN /\ pc' = "raised"
            /\ result' = Raises("ValueError")
       ELSE /\ pc' = "angle"
            /\ UNCHANGED result
    /\ UNCHANGED <<harnessVars, batchVars, utilVars, agents, search, profile, analysis, notes, pangle>>

AnchorCheck ==
    /\ pc = "anchor_check"
    /\ calls' = Append(calls, "anchor_check")
    /\ IF StartsWith(notes.summary, NEEDS_RESEARCH)
       THEN /\ pc' = "done"
            /\ result' = Returns(profile, notes, Refusal(notes.summary))
       ELSE /\ pc' = "angle"
            /\ UNCHANGED result
    /\ UNCHANGED <<harnessVars, batchVars, utilVars, agents, search, profile, analysis, notes, pangle>>

\* angle = await angle_builder.run(prospect=..., research_notes=notes, profile=...)
\* AngleBuilder.run has a required parameter latest_piece that this call does
\* not pass: TypeError.
BuildAngle ==
    /\ pc = "angle"
    /\ calls' = Append(calls, "angle_builder")
    /\ \/ /\ agents.angle_builder = "AngleBuilder"
          /\ pc' = "raised"
          /\ result' = Raises("TypeError")
          /\ UNCHANGED pangle
       \/ /\ agents.angle_builder = "double"
          /\ \/ \E a \in DoubleAngles :
                  /\ pangle' = a
                  /\ pc' = "angle_check"
                  /\ UNCHANGED result
             \/ /\ pc' = "raised"
                /\ result' = Raises("RuntimeError")
                /\ UNCHANGED pangle
    /\ UNCHANGED <<harnessVars, batchVars, utilVars, agents, search, profile, analysis, notes>>

\* angle_check = validate_angle(angle); if not angle_check.ok: return {...}
AngleCheck_falling_through ==
    /\ pc = "angle_check"
    /\ calls' = Append(calls, "validate_angle")
    /\ pc' = "pitch"
    /\ UNCHANGED result
    /\ UNCHANGED <<harnessVars, batchVars, utilVars, agents, search, profile, analysis, notes, pangle>>

AngleCheck ==
    /\ pc = "angle_check"
    /\ calls' = Append(calls, "validate_angle")
    /\ LET angle_check == validate_angle(pangle)
       IN  IF ~angle_check.ok
           THEN /\ pc' = "done"
                /\ result' = Returns(profile, notes, Refusal(angle_check.reason))
           ELSE /\ pc' = "pitch"
                /\ UNCHANGED result
    /\ UNCHANGED <<harnessVars, batchVars, utilVars, agents, search, profile, analysis, notes, pangle>>

\* pitch = await pitch_agent.run(prospect=..., research_notes=notes, angle=..., profile=...)
\* Neither PitchDraftingAgentV2.run nor PitchDraftingAgent.run accepts the
\* keyword research_notes: TypeError.
Pitch ==
    /\ pc = "pitch"
    /\ calls' = Append(calls, "pitch")
    /\ \/ /\ agents.pitch_agent \in {"PitchDraftingAgentV2", "PitchDraftingAgent"}
          /\ pc' = "raised"
          /\ result' = Raises("TypeError")
       \/ /\ agents.pitch_agent = "double"
          /\ \/ /\ pc' = "done"
                /\ result' = Returns(profile, notes,
                                     PitchDraft(<<"<subject>">>, <<"<body of the double>">>))
             \/ /\ pc' = "raised"
                /\ result' = Raises("RuntimeError")
    /\ UNCHANGED <<harnessVars, batchVars, utilVars, agents, search, profile, analysis, notes, pangle>>

Next ==
    \/ Discover
    \/ Research
    \/ AnchorCheck
    \/ BuildAngle
    \/ AngleCheck
    \/ Pitch

Spec == Init /\ [][Next]_vars

----------------------------------------------------------------------------
(* run.py: process_all_prospects *)

\* Largest number of prospects in a batch
MaxProspects == 3

\* prospect.name of the i-th prospect; the names of a batch are distinct
Name(i) == Rep("x", i)

\* The name process_prospect that handle_prospect calls.  "process_prospect"
\* is the function the module imports (orchestrator/workflow.py);
\* "substitute" is a callable bound to the same name that takes the four
\* keywords of the call and runs the workflow with every stage supplied.
Flows == {"process_prospect", "substitute"}

FullResult == SearchResult(<<"X">>, HttpA, <<"Y">>)

\* what the injected stage objects do for one prospect
StageBehaviours ==
    {[discovery |-> "raises", results |-> <<>>, citations |-> 0]}
        \cup { [discovery |-> "returns", results |-> rs, citations |-> 0] :
                  rs \in {<<>>, <<FullResult>>} }
        \cup {[discovery |-> "returns", results |-> <<FullResult>>, citations |-> 1]}

Batches == UNION { [1..n -> StageBehaviours] : n \in 0..MaxProspects }

\* the concurrency argument: negative, zero, below, at and above the batch size
ConcurrencyPool == -1 .. (MaxProspects + 1)

\* asyncio.Semaphore(concurrency if concurrency > 0 else len(prospects))
Permits_unbounded(c, n) == n
Permits(c, n) == IF c > 0 THEN c ELSE n

\* str(exc) of the exceptions handle_prospect catches
MissingAngleBuilder == <<"process_prospect() missing 1 required keyword-only argument: 'angle_builder'">>
DictHasNoSlug == <<"'dict' object has no attribute 'slug'">>
DiscoveryFailure == <<"<search_journalist failed>">>
CitationNotStr == <<"sequence item 0: expected str instance, Url found">>

\* await process_prospect(...) with every stage supplied: the workflow of
\* orchestrator/workflow.py, its angle builder and pitch agent succeeding
process_prospect(behaviour, prospect_name) ==
    IF behaviour.discovery = "raises"
    THEN Raises("ConnectionError")
    ELSE LET n == ResearchAgent_run(prospect_name,
                                    SearchClient("search", "ok", behaviour.results),
                                    [mode |-> "none", parsed |-> NoPiece]).notes
             found == IF behaviour.citations > 0 THEN CitedProfile ELSE Profile
         IN  IF StartsWith(n.summary, NEEDS_RESEARCH)
             THEN Returns(found, n, Refusal(n.summary))
             ELSE Returns(found, n,
                          PitchDraft(<<"<subject>">>, <<"<body of the double>">>))

\* what await process_prospect(...) gives for the i-th prospect of a batch,
\* tabulated over the stage behaviours and the positions in a batch
pipeline_result ==
    [behaviour \in StageBehaviours |->
        [i \in 1 .. MaxProspects |-> process_prospect(behaviour, Name(i))]]

Task(at, res) == [pc |-> at, result |-> res]

NoArgs == [none |-> TRUE]
LogEntry(op, args) == [op |-> op, args |-> args]

Outputs(files, pitch_rows, research_rows, res) ==
    [files |-> files, pitch_rows |-> pitch_rows, research_rows |-> research_rows,
     results |-> res]

InitBatch ==
    /\ fn = "process_all_prospects" /\ phase = "ready" /\ piece = NoPiece
    /\ angle = NoAngle /\ llm = "none" /\ ret = NoneVal /\ hits = <<>>
    /\ again = NoneVal
    /\ PipeIdle
    /\ UtilIdle
    /\ flow \in Flows
    /\ prospects \in Batches
    /\ concurrency \in ConcurrencyPool
    /\ sem = Permits(concurrency, Len(prospects))
    /\ tasks = [i \in 1..Len(prospects) |-> Task("created", NoResult)]
    /\ manifest = RunManifest(Len(prospects))
    /\ outputs = Outputs({}, <<>>, <<>>, <<>>)
    /\ runner = "gather"
    /\ log = <<>>

\* async with sem: result = await process_prospect(prospect=..., discovery_agent=...,
\* research_agent=..., pitch_agent=...).  The imported function has a required
\* keyword-only parameter angle_builder: the call raises TypeError before
\* anything is awaited, the except branch records it and the permit is given
\* back in the same step.
EnterPipeline(i) ==
    /\ tasks[i].pc = "created"
    /\ sem > 0
    /\ IF flow = "process_prospect"
       THEN /\ tasks' = [tasks EXCEPT ![i] = Task("done", Raises("TypeError"))]
            /\ manifest' = record_error(manifest, Name(i), "pipeline", MissingAngleBuilder)
            /\ log' = Append(log, LogEntry("record_error",
                           ManifestError(Name(i), "pipeline", MissingAngleBuilder)))
            /\ UNCHANGED sem
       ELSE /\ sem' = sem - 1
            /\ tasks' = [tasks EXCEPT ![i] = Task("process_prospect", NoResult)]
            /\ UNCHANGED <<manifest, log>>
    /\ UNCHANGED <<harnessVars, pipeVars, utilVars, flow, prospects, concurrency, outputs, runner>>

\* pitch.slug: a PitchDraft has the attribute, the refusal dict has not
has_slug(res) == "kind" \in DOMAIN res.pitch /\ res.pitch.kind = "PitchDraft"

\* the pitch files opened for writing while handling res: the path is built
\* from pitch.slug, so none is opened unless that attribute exists
written_whatever_the_pitch(res, prospect_name) ==
    IF res.raised = NoneVal THEN {prospect_name} ELSE {}
written(res, prospect_name) ==
    IF res.raised = NoneVal /\ has_slug(res) THEN {prospect_name} ELSE {}

\* leaving "async with sem": the permit goes back however the body ended
release_unless_raised(permits, res) == IF res.raised = NoneVal THEN permits + 1 ELSE permits
release(permits, res) == permits + 1

\* ";".join([c.url for c in profile.citations + notes.citations]): the urls
\* are Url objects, so the join raises TypeError unless there is no citation
citations_join(res) == res.profile.citations = <<>>

\* the pitch-summary rows appended while handling res: the row follows the
\* file and precedes the citations join
pitch_row(res, prospect_name) ==
    IF res.raised = NoneVal /\ has_slug(res)
    THEN << [prospect_name |-> prospect_name, subject_line |-> res.pitch.subject_line] >>
    ELSE <<>>

\* the rest of handle_prospect once process_prospect has returned or raised:
\* the file, the rows, record_success, or the except branch; no await
LeavePipeline(i) ==
    /\ tasks[i].pc = "process_prospect"
    /\ LET res == pipeline_result[prospects[i]][i]
           fault == IF res.raised # NoneVal THEN DiscoveryFailure
                    ELSE IF ~has_slug(res) THEN DictHasNoSlug
                    ELSE CitationNotStr
       IN  /\ tasks' = [tasks EXCEPT ![i] = Task("done", res)]
           /\ IF res.raised = NoneVal /\ has_slug(res) /\ citations_join(res)
              THEN /\ outputs' = Outputs(
                          outputs.files \cup written(res, Name(i)),
                          outputs.pitch_rows \o pitch_row(res, Name(i)),
                          Append(outputs.research_rows,
                                 [prospect_name |-> Name(i), summary |-> res.notes.summary]),
                          Append(outputs.results, res))
                   /\ manifest' = record_success(manifest)
                   /\ log' = Append(log, LogEntry("record_success", NoArgs))
              ELSE /\ manifest' = record_error(manifest, Name(i), "pipeline", fault)
                   /\ log' = Append(log, LogEntry("record_error",
                                  ManifestError(Name(i), "pipeline", fault)))
                   /\ outputs' = [outputs EXCEPT
                                     !.files = @ \cup written(res, Name(i)),
                                     !.pitch_rows = @ \o pitch_row(res, Name(i))]
    /\ sem' = release(sem, pipeline_result[prospects[i]][i])
    /\ UNCHANGED <<harnessVars, pipeVars, utilVars, flow, prospects, concurrency, runner>>

\* await asyncio.gather(*tasks); manifest.finish(); return
Finish_without_gather ==
    /\ runner = "gather"
    /\ manifest' = finish(manifest, Len(log) + 1)
    /\ log' = Append(log, LogEntry("finish", NoArgs))
    /\ runner' = "returned"
    /\ UNCHANGED <<harnessVars, pipeVars, utilVars, flow, prospects, concurrency, sem, tasks, outputs>>

Finish ==
    /\ runner = "gather"
    /\ \A i \in DOMAIN tasks : tasks[i].pc = "done"
    /\ manifest' = finish(manifest, Len(log) + 1)
    /\ log' = Append(log, LogEntry("finish", NoArgs))
    /\ runner' = "returned"
    /\ UNCHANGED <<harnessVars, pipeVars, utilVars, flow, prospects, concurrency, sem, tasks, outputs>>

NextBatch ==
    \/ \E i \in DOMAIN tasks : EnterPipeline(i)
    \/ \E i \in DOMAIN tasks : LeavePipeline(i)
    \/ Finish

SpecBatch == InitBatch /\ [][NextBatch]_vars

\* the event loop runs every task that is ready: a task waiting for a permit
\* gets it once one is free, a stage call returns or raises, and gather
\* returns once every task is done
SpecBatchFair == SpecBatch /\ WF_vars(NextBatch)

----------------------------------------------------------------------------
(* utils/search_client.py: SerpApiSearchClient._throttle *)

\* callers of _throttle on one client, and the horizon of the event loop's
\* clock (whole seconds)
MaxCallers == 3
MaxClock == 4

Callers == 1 .. MaxCallers

\* rate_limit values; the positive ones divide 60, so 60 / rate_limit is whole
RateLimits == {0, 20, 30, 60}

\* min_interval = 60 / self.rate_limit
min_interval(rate_limit) == 60 \div rate_limit

\* self._lock: 0 when nobody holds it, else the caller holding it
lock_free_always(t) == TRUE
lock_free(t) == t.lock = 0

\* one request sent to the provider
ProviderRequest(t, sender) == [at |-> t, sender |-> sender]

\* state of one client: its fields, each caller's position in _throttle, the
\* time each sleeping caller sleeps until, the times at which callers have
\* left _throttle, in order, and the requests sent to the provider, in order
Throttle(rate_limit) ==
    [rate_limit |-> rate_limit, lock |-> 0, last_request |-> Unset,
     at |-> [c \in Callers |-> "idle"], until |-> [c \in Callers |-> 0],
     released |-> <<>>, requests |-> <<>>]

InitThrottle ==
    /\ fn = "throttle" /\ phase = "ready" /\ piece = NoPiece /\ angle = NoAngle
    /\ llm = "none" /\ ret = NoneVal /\ hits = <<>> /\ again = NoneVal
    /\ PipeIdle
    /\ BatchIdle /\ manifest = NoManifest
    /\ clock = 0
    /\ throttle \in { Throttle(r) : r \in RateLimits }
    /\ retry = NoRetry

\* await self._throttle(): the caller reaches "async with self._lock"
ThrottleCall(c) ==
    /\ throttle.at[c] = "idle"
    /\ throttle' = [throttle EXCEPT !.at[c] = "lock"]
    /\ UNCHANGED <<harnessVars, pipeVars, batchVars, clock, retry>>

\* the lock is acquired and the body runs up to its return or to the sleep
ThrottleEnter(c) ==
    /\ throttle.at[c] = "lock"
    /\ lock_free(throttle)
    /\ LET leave(t) ==
             [t EXCEPT !.at[c] = "released", !.released = Append(@, clock),
                       !.requests = Append(@, ProviderRequest(clock, "search_journalist"))]
       IN  IF throttle.rate_limit <= 0
           THEN throttle' = leave(throttle)
           ELSE IF ~throttle.last_request.set
           THEN throttle' = leave([throttle EXCEPT !.last_request = At(clock)])
           ELSE LET elapsed == clock - throttle.last_request.at
                IN  IF elapsed < min_interval(throttle.rate_limit)
                    THEN throttle' =
                           [throttle EXCEPT
                               !.lock = c, !.at[c] = "sleep",
                               !.until[c] = clock + (min_interval(throttle.rate_limit) - elapsed)]
                    ELSE throttle' = leave([throttle EXCEPT !.last_request = At(clock)])
    /\ UNCHANGED <<harnessVars, pipeVars, batchVars, clock, retry>>

\* the sleep is over: self._last_request = loop.time(), the lock is released
ThrottleWake(c) ==
    /\ throttle.at[c] = "sleep"
    /\ clock >= throttle.until[c]
    /\ throttle' = [throttle EXCEPT !.last_request = At(clock), !.lock = 0,
                                    !.at[c] = "released",
                                    !.released = Append(@, clock),
                                    !.requests = Append(@, ProviderRequest(clock,
                                                                "search_journalist"))]
    /\ UNCHANGED <<harnessVars, pipeVars, batchVars, clock, retry>>

\* the research stage of a prospect whose discovery is over: _search_articles
\* is given the client, which has no search method, and calls requests.get
\* itself with the client's api_key
ArticleSearch(c) ==
    /\ throttle.at[c] = "released"
    /\ throttle' = [throttle EXCEPT
                       !.at[c] = "searched",
                       !.requests = Append(@, ProviderRequest(clock, "_search_articles"))]
    /\ UNCHANGED <<harnessVars, pipeVars, batchVars, clock, retry>>

\* the event loop's clock advances
ThrottleTick ==
    /\ clock < MaxClock
    /\ clock' = clock + 1
    /\ UNCHANGED <<harnessVars, pipeVars, batchVars, throttle, retry>>

NextThrottle ==
    \/ \E c \in Callers : ThrottleCall(c)
    \/ \E c \in Callers : ThrottleEnter(c)
    \/ \E c \in Callers : ThrottleWake(c)
    \/ \E c \in Callers : ArticleSearch(c)
    \/ ThrottleTick

SpecThrottle == InitThrottle /\ [][NextThrottle]_vars

----------------------------------------------------------------------------
(* utils/retry.py: retry_async *)

\* largest value of the attempts argument
MaxAttempts == 3

\* what one call of func does: return, raise an exception of a class in
\* exceptions, raise an exception of another class
CallOutcomes == {"ok", "listed", "other"}

\* except exceptions as exc
retryable_whatever_the_class(outcome) == outcome # "ok"
retryable(outcome) == outcome = "listed"

\* what retry_async hands back: the value or the exception of its n-th call
\* of func, or its own RuntimeError (n = 0)
NoOutcome == [kind |-> "none", call |-> 0]
Value(n) == [kind |-> "value", call |-> n]
Exc(n) == [kind |-> "exception", call |-> n]
OwnRuntimeError == [kind |-> "RuntimeError", call |-> 0]

\* locals of one call of retry_async; last_exc is the number of the call
\* whose exception it holds (0 for None), calls the outcomes of the calls of
\* func so far, sleeps the delays slept so far
Retry(attempts, initial_wait, max_wait) ==
    [attempts |-> attempts, initial_wait |-> initial_wait, max_wait |-> max_wait,
     delay |-> initial_wait, last_exc |-> 0, attempt |-> 1,
     at |-> IF attempts >= 1 THEN "call" ELSE "after loop",
     calls |-> <<>>, sleeps |-> <<>>, outcome |-> NoOutcome]

\* min(delay * 2, max_wait)
min(a, b) == IF a <= b THEN a ELSE b

InitRetry ==
    /\ fn = "retry_async" /\ phase = "ready" /\ piece = NoPiece /\ angle = NoAngle
    /\ llm = "none" /\ ret = NoneVal /\ hits = <<>> /\ again = NoneVal
    /\ PipeIdle
    /\ BatchIdle /\ manifest = NoManifest
    /\ clock = 0 /\ throttle = NoThrottle
    /\ retry \in { Retry(n, w, m) : n \in -1 .. MaxAttempts, w \in {1, 2, 3}, m \in {2, 8} }

\* try: return await func(*args, **kwargs) / except exceptions as exc:
\* last_exc = exc; if attempt == attempts: break
RetryCall ==
    /\ retry.at = "call"
    /\ \E o \in CallOutcomes :
          LET n == Len(retry.calls) + 1
              called == [retry EXCEPT !.calls = Append(@, o)]
          IN  IF o = "ok"
              THEN retry' = [called EXCEPT !.at = "returned", !.outcome = Value(n)]
              ELSE IF ~retryable(o)
              THEN retry' = [called EXCEPT !.at = "raised", !.outcome = Exc(n)]
              ELSE retry' = [called EXCEPT
                                !.last_exc = n,
                                !.at = IF retry.attempt = retry.attempts
                                       THEN "after loop" ELSE "sleep"]
    /\ UNCHANGED <<harnessVars, pipeVars, batchVars, clock, throttle>>

\* await asyncio.sleep(delay); delay = min(delay * 2, max_wait); next attempt
RetrySleep ==
    /\ retry.at = "sleep"
    /\ retry' = [retry EXCEPT !.sleeps = Append(@, retry.delay),
                              !.delay = min(retry.delay * 2, retry.max_wait),
                              !.attempt = @ + 1,
                              !.at = "call"]
    /\ UNCHANGED <<harnessVars, pipeVars, batchVars, clock, throttle>>

\* if last_exc is not None: raise last_exc / raise RuntimeError(...)
RetryAfterLoop ==
    /\ retry.at = "after loop"
    /\ retry' = [retry EXCEPT
                    !.at = "raised",
                    !.outcome = IF retry.last_exc # 0 THEN Exc(retry.last_exc)
                                ELSE OwnRuntimeError]
    /\ UNCHANGED <<harnessVars, pipeVars, batchVars, clock, throttle>>

NextRetry == RetryCall \/ RetrySleep \/ RetryAfterLoop

SpecRetry == InitRetry /\ [][NextRetry]_vars

----------------------------------------------------------------------------
(* Claims about the gates (orchestrator/validation.py) *)

\* C1: validate_anchor returns ok = false for every analysis whose confidence
\* is "medium" or "low", whatever title, url, anchor and failure_reason are.
C1_NonHighConfidenceRejected ==
    (Returned("validate_anchor") /\ piece # NoPiece /\ piece.confidence # "high")
        => (ret.raised = NoneVal /\ ret.ok = FALSE)

\* a medium-confidence analysis that is otherwise flawless has been judged
C1_Witness ==
    /\ Returned("validate_anchor")
    /\ piece = LatestPieceAnalysis(<<"X">>, StrUrl(HttpA), RealAnchor, "medium", NoneVal)

\* C2: an analysis accepted by validate_anchor has confidence "high", a
\* non-empty anchor that is not NEEDS_RESEARCH or N/A in any letter case, a
\* title that is neither empty nor "N/A", a url that is neither empty nor "N/A".
C2_AcceptedAnalysisIsAnchored ==
    (Returned("validate_anchor") /\ ret.raised = NoneVal /\ ret.ok)
        => /\ piece # NoPiece
           /\ piece.confidence = "high"
           /\ piece.required_opening_anchor # <<>>
           /\ Upper(piece.required_opening_anchor) \notin {NEEDS_RESEARCH, NA}
           /\ piece.title \notin {<<>>, NA}
           /\ piece.url.kind # "none"
           /\ piece.url.s \notin {<<>>, NA}

\* validate_anchor has accepted an analysis
C2_Witness ==
    /\ Returned("validate_anchor")
    /\ ret.raised = NoneVal /\ ret.ok
    /\ piece.required_opening_anchor = RealAnchor

Min(S) == CHOOSE x \in S : \A y \in S : x <= y

\* the numbers of the checks of validate_anchor that an input fails
FailingAnchorChecks(p) ==
    IF p = NoPiece THEN {1}
    ELSE { i \in 2..6 :
             \/ i = 2 /\ not_high_confidence(p)
             \/ i = 3 /\ anchor_missing(p)
             \/ i = 4 /\ anchor_is_sentinel(p)
             \/ i = 5 /\ title_missing(p)
             \/ i = 6 /\ (url_falsy(p) \/ (p.url.kind = "str" /\ url_is_na(p))) }

AnchorCheckReason(i, p) ==
    CASE i = 1 -> <<"no_latest_piece_returned">>
      [] i = 2 -> IF Truthy(p.failure_reason) THEN p.failure_reason
                  ELSE <<"latest_piece_not_high_confidence">>
      [] i = 3 -> <<"missing_required_opening_anchor">>
      [] i = 4 -> <<"invalid_required_opening_anchor">>
      [] i = 5 -> <<"missing_latest_piece_title">>
      [] i = 6 -> <<"missing_latest_piece_url">>

\* C3: validate_anchor reports the reason of the lowest-numbered failing check
\* (null piece, confidence, empty anchor, sentinel anchor, title, url); with
\* non-high confidence and an empty anchor it reports the check-2 reason.
C3_FirstFailingCheckWins ==
    (Returned("validate_anchor") /\ FailingAnchorChecks(piece) # {})
        => /\ ret = ValidationResult(FALSE,
                       AnchorCheckReason(Min(FailingAnchorChecks(piece)), piece))
           /\ ({2, 3} \subseteq FailingAnchorChecks(piece)
                  => ret.reason # <<"missing_required_opening_anchor">>)

\* an analysis failing checks 2 and 3 (and more) at once has been judged
C3_Witness ==
    /\ Returned("validate_anchor")
    /\ {2, 3, 5, 6} \subseteq FailingAnchorChecks(piece)
    /\ ret.reason = <<"latest_piece_not_high_confidence">>

\* C4: validate_angle reports no_angle_generated for a null angle, else
\* low_confidence_angle when confidence is not "high", else angle_too_thin when
\* the trimmed sentence has fewer than 25 characters, else ok.
C4_AngleGateTable ==
    Returned("validate_angle")
        => /\ ret.raised = NoneVal
           /\ angle = NoAngle => ret = ValidationResult(FALSE, <<"no_angle_generated">>)
           /\ angle # NoAngle =>
                LET n == Len(Strip(angle.one_sentence_angle))
                IN  /\ angle.confidence # "high"
                        => ret = ValidationResult(FALSE, <<"low_confidence_angle">>)
                    /\ (angle.confidence = "high" /\ n <= 24)
                        => ret = ValidationResult(FALSE, <<"angle_too_thin">>)
                    /\ (angle.confidence = "high" /\ n >= 25)
                        => ret = ValidationResult(TRUE, NoneVal)

\* a sentence of exactly 25 characters between blanks has been accepted
C4_Witness ==
    /\ Returned("validate_angle")
    /\ angle # NoAngle
    /\ angle.confidence = "high"
    /\ Len(Strip(angle.one_sentence_angle)) = 25
    /\ Len(angle.one_sentence_angle) > 25
    /\ ret.ok

----------------------------------------------------------------------------
(* Claims about the composer (agents/pitch_agent.py) *)

IsRefusalDocument(md) == StartsWith(md, RefusalHeading)

\* the text of the draft: the markdown itself, or the body of the PitchDraft
DraftText == IF fn = "PitchDraftingAgentV2.run" THEN ret.body ELSE ret

ComposerReturned == phase = "returned" /\ fn \in ComposerFns

C6_UnanchoredReplyReplaced ==
    (/\ Returned("draft_pitch_markdown")
     /\ llm # "none"
     /\ ~IsRefusalDocument(ret)
     /\ ~StartsWith(LlmReply(llm, piece), piece.required_opening_anchor))
        => ret = PitchTemplate(Strip(piece.required_opening_anchor), piece, angle)

\* C7: the composer returns a NEEDS_RESEARCH refusal document whenever
\* confidence is not "high" or the anchor is missing, and drafts only for
\* high-confidence analyses that have an anchor.
C7_ComposerRefusesUnlessHigh ==
    Returned("draft_pitch_markdown")
        => ((piece.confidence # "high" \/ Strip(piece.required_opening_anchor) = <<>>)
               => IsRefusalDocument(ret))

\* C33: when the composer refuses (returns the NEEDS_RESEARCH document) the
\* pitch agent does not hand back an ordinary PitchDraft: a refusal text is
\* never the body of a draft that the batch runner would write to a file.
C33_RefusalIsNotADraft ==
    (Returned("PitchDraftingAgentV2.run")
        /\ IsRefusalDocument(draft_pitch_markdown(piece, angle, LlmReply(llm, piece))))
        => ~(ret.kind = "PitchDraft" /\ IsRefusalDocument(ret.body))

----------------------------------------------------------------------------
(* Claims about process_prospect (orchestrator/workflow.py) *)

StageOrder ==
    <<"discovery", "research", "anchor_check", "angle_builder", "validate_angle", "pitch">>

Invoked(stage) == \E k \in 1..Len(calls) : calls[k] = stage

\* the research notes do not start with NEEDS_RESEARCH
ResearchAccepted == notes # NoNotes /\ ~StartsWith(notes.summary, NEEDS_RESEARCH)

ResearchRejected == notes # NoNotes /\ StartsWith(notes.summary, NEEDS_RESEARCH)

\* C8: the stages run in the order discovery, research, anchor check, angle
\* building, angle check, pitch; the pitch stage runs only after the research
\* result was accepted and validate_angle returned ok; after the first failing
\* gate neither the angle builder nor the pitch agent is invoked.
C8_StagesInOrder ==
    /\ Len(calls) <= Len(StageOrder)
    /\ calls = SubSeq(StageOrder, 1, Len(calls))
    /\ Invoked("pitch") => (ResearchAccepted /\ validate_angle(pangle).ok)
    /\ (Invoked("anchor_check") /\ ResearchRejected)
          => (~Invoked("angle_builder") /\ ~Invoked("pitch"))
    /\ (Invoked("validate_angle") /\ ~validate_angle(pangle).ok) => ~Invoked("pitch")

\* a run went through all six stages and returned a draft
C8_Witness ==
    /\ pc = "done"
    /\ calls = StageOrder
    /\ result.raised = NoneVal

\* C9: the angle builder is never invoked for an analysis that validate_anchor
\* would reject: an analysis that gets past the research stage has high
\* confidence, a non-sentinel anchor, a real title and a real url.
C9_OnlyAnchoredAnalysesProceed ==
    Invoked("angle_builder")
        => (analysis # NoPiece /\ FailingAnchorChecks(analysis) = {})

Researched == \E k \in DOMAIN calls : calls[k] = "research"

\* no analysis was obtained (no search client, or the extractor raised), or
\* the analysis carries a failure_reason or has low confidence
ResearchFailed ==
    \/ analysis = NoPiece
    \/ Truthy(analysis.failure_reason)
    \/ analysis.confidence = "low"

\* C31: ResearchAgent.run never raises because of a failure inside
\* find_latest_piece_analysis: a missing search client, an exception from the
\* extractor, a non-empty failure_reason or low confidence each give
\* ResearchNotes whose summary starts with NEEDS_RESEARCH, and process_prospect
\* turns them into a rejection without calling a later stage.
C31_ResearchFailureBecomesRejection ==
    (Researched /\ ResearchFailed) =>
        /\ StartsWith(notes.summary, NEEDS_RESEARCH)
        /\ \/ pc = "anchor_check" /\ result = NoResult
           \/ /\ pc = "done"
              /\ result = Returns(profile, notes, Refusal(notes.summary))
              /\ calls = <<"discovery", "research", "anchor_check">>

\* the extractor raised (the provider answered with an error status and the
\* empty result list does not make a valid analysis) and the run was rejected
C31_Witness ==
    /\ search.client = SearchClient("legacy", "http_error", <<>>) /\ search.llm = "none"
    /\ Researched /\ analysis = NoPiece
    /\ pc = "done" /\ result.pitch = Refusal(notes.summary)

PipelineStages == {"discovery", "research", "angle_builder", "pitch"}

Invocations(stage) == Cardinality({k \in DOMAIN calls : calls[k] = stage})

\* C30: within one run of process_prospect each stage (discovery agent,
\* research agent, angle builder, pitch agent) is invoked at most once: the
\* pipeline layer performs no retry, and once a rejection has been decided
\* (or the run has otherwise returned or raised) the run has ended and no
\* stage is invoked again.
C30_EachStageAtMostOnce ==
    /\ \A stage \in PipelineStages : Invocations(stage) <= 1
    /\ result # NoResult =>
          /\ pc \in {"done", "raised"}
          /\ ~ENABLED Next
    /\ (result # NoResult /\ result.raised = NoneVal /\ ~has_slug(result)) =>
          /\ Invocations("pitch") = 0
          /\ calls[Len(calls)] \in {"anchor_check", "validate_angle"}

\* a run rejected by validate_angle: discovery, research and the angle
\* builder each ran once, the pitch agent did not
C30_Witness ==
    /\ pc = "done" /\ result.raised = NoneVal /\ ~has_slug(result)
    /\ calls = <<"discovery", "research", "anchor_check", "angle_builder", "validate_angle">>

----------------------------------------------------------------------------
(* Claims about the batch runner (run.py, schemas/models.py) *)

\* the prospects whose pipeline is executing: inside the semaphore, awaiting
\* process_prospect
Executing == { i \in DOMAIN tasks : tasks[i].pc = "process_prospect" }

\* C11: at every moment of process_all_prospects the number of prospects
\* whose pipeline is executing is at most concurrency when concurrency > 0 and
\* at most the batch size when concurrency <= 0; the limit does not change
\* during the run (free permits plus executing pipelines always add up to it).
C11_AdmissionBounded ==
    /\ concurrency > 0 => Cardinality(Executing) <= concurrency
    /\ concurrency <= 0 => Cardinality(Executing) <= Len(prospects)
    /\ sem + Cardinality(Executing) = IF concurrency > 0 THEN concurrency ELSE Len(prospects)

\* the limiter is full and a prospect is kept waiting
C11_Witness ==
    /\ concurrency > 0
    /\ Cardinality(Executing) = concurrency
    /\ \E i \in DOMAIN tasks : tasks[i].pc = "created"

\* the prospects whose discovery adapter raises
DiscoveryRaisers == { i \in DOMAIN prospects : prospects[i].discovery = "raises" }

\* every stage of every other prospect succeeds
OthersComplete ==
    \A i \in DOMAIN prospects \ DiscoveryRaisers : prospects[i].results = <<FullResult>>

\* C12: in a batch of N prospects where exactly one prospect's discovery
\* adapter raises and the other N-1 pipelines complete, the manifest ends with
\* successful = N-1 and exactly one error, recorded with stage "pipeline"
\* against the failing prospect.
C12_OneFailureIsIsolated ==
    (runner = "returned" /\ Cardinality(DiscoveryRaisers) = 1 /\ OthersComplete)
        => /\ manifest.successful = Len(prospects) - 1
           /\ Len(manifest.errors) = 1
           /\ manifest.errors[1].stage = "pipeline"
           /\ \E i \in DiscoveryRaisers : manifest.errors[1].prospect_name = Name(i)

\* the calls of one method made on the manifest so far, in order
CallsOf(op) == SelectSeq(log, LAMBDA e : e.op = op)

\* C13: under every interleaving of the prospect units no record_success or
\* record_error update is lost: after k record_success calls and m
\* record_error calls the manifest has successful = k and exactly m error
\* entries, the j-th entry holding the prospect_name, stage and message of the
\* j-th call.
C13_NoLostUpdate ==
    /\ manifest.successful = Len(CallsOf("record_success"))
    /\ Len(manifest.errors) = Len(CallsOf("record_error"))
    /\ \A j \in 1..Len(manifest.errors) :
          manifest.errors[j] = CallsOf("record_error")[j].args

\* both kinds of update have been made while another unit is still executing
C13_Witness ==
    /\ manifest.successful >= 1
    /\ Len(manifest.errors) >= 1
    /\ Executing # {}

\* C14: finish() is called only after every prospect unit has completed and
\* recorded its outcome; finished_at is unset before that call and set after
\* it, and no record_success or record_error happens after finish().
C14_SealedAfterAllUnits ==
    /\ manifest.finished_at.set <=> CallsOf("finish") # <<>>
    /\ manifest.finished_at.set =>
          /\ \A i \in DOMAIN tasks : tasks[i].pc = "done"
          /\ Len(CallsOf("record_success")) + Len(CallsOf("record_error")) = Len(prospects)
    /\ \A k \in 1..Len(log) : log[k].op = "finish" => k = Len(log)

\* a sealed manifest of a batch with a success and an error
C14_Witness ==
    /\ runner = "returned"
    /\ manifest.finished_at.set
    /\ manifest.successful >= 1
    /\ Len(manifest.errors) >= 1

\* C15: a sealed RunManifest is read-only: once finish() has been called, a
\* call to record_success, record_error or finish leaves successful, errors
\* and finished_at unchanged.
C15_SealedManifestReadOnly ==
    [][(fn \in ManifestFns /\ manifest.finished_at.set)
          => /\ manifest.successful' = manifest.successful
             /\ manifest.errors' = manifest.errors
             /\ manifest.finished_at' = manifest.finished_at]_vars

\* the pipeline of prospect i ended REJECTED: process_prospect returned a
\* NEEDS_RESEARCH refusal and handle_prospect has dealt with it
Rejected(i) ==
    /\ tasks[i].pc = "done"
    /\ tasks[i].result.raised = NoneVal
    /\ "status" \in DOMAIN tasks[i].result.pitch
    /\ tasks[i].result.pitch.status = NEEDS_RESEARCH

\* the batch's outputs hold a row for prospect i that carries its refusal reason
HasRefusalRow(i) ==
    \/ \E k \in 1..Len(outputs.results) : outputs.results[k] = tasks[i].result
    \/ \E k \in 1..Len(outputs.research_rows) :
          /\ outputs.research_rows[k].prospect_name = Name(i)
          /\ outputs.research_rows[k].summary = tasks[i].result.pitch.reason

C17_NoFileForRejected ==
    /\ \A i \in DOMAIN tasks : Rejected(i) => Name(i) \notin outputs.files
    /\ \A i \in DOMAIN tasks : prospects[i].results = <<>> => Name(i) \notin outputs.files
    /\ \A i \in DOMAIN tasks :
          (tasks[i].pc = "done" /\ tasks[i].result.raised = NoneVal
              /\ prospects[i].results = <<>>)
          => (Rejected(i) /\ Name(i) \notin outputs.files)

\* a prospect with no search results has been rejected while another
\* prospect of the batch had its pitch file written
C17_Witness ==
    /\ \E i \in DOMAIN tasks : Rejected(i) /\ prospects[i].results = <<>>
    /\ outputs.files # {}

\* C35: every prospect of a batch is accounted for exactly once: at every
\* point of a run successful + len(errors) <= total_prospects, when the
\* manifest is sealed successful + len(errors) = total_prospects, and
\* total_prospects is the number of input prospects throughout.
C35_EveryProspectAccountedOnce ==
    /\ manifest.total_prospects = Len(prospects)
    /\ manifest.successful + Len(manifest.errors) <= manifest.total_prospects
    /\ manifest.successful + Len(manifest.errors)
          = Cardinality({i \in DOMAIN tasks : tasks[i].pc = "done"})
    /\ manifest.finished_at.set
          => manifest.successful + Len(manifest.errors) = manifest.total_prospects

\* a sealed manifest of three prospects, with successes and several errors
C35_Witness ==
    /\ manifest.finished_at.set /\ manifest.total_prospects = 3
    /\ manifest.successful >= 1 /\ Len(manifest.errors) = 2

InErrors(i) ==
    \E k \in 1 .. Len(manifest.errors) : manifest.errors[k].prospect_name = Name(i)

HasRow(rows, i) == \E k \in 1 .. Len(rows) : rows[k].prospect_name = Name(i)

C29_BatchTerminates ==
    <>(/\ runner = "returned"
       /\ \A i \in DOMAIN tasks : tasks[i].pc = "done"
       /\ sem = Permits(concurrency, Len(prospects))
       /\ manifest.finished_at.set)

\* a batch of three run one at a time has ended; units failed and a unit
\* succeeded
C29_Witness ==
    /\ runner = "returned" /\ flow = "substitute"
    /\ Len(prospects) = 3 /\ concurrency = 1 /\ sem = 1
    /\ tasks[1].result.raised # NoneVal
    /\ manifest.successful >= 1 /\ Len(manifest.errors) >= 1
    /\ manifest.finished_at.set

----------------------------------------------------------------------------
(* Claims about the repository's stages end to end *)

\* process_prospect is given this repository's stage classes, no generator,
\* a discovery that returns, and a search that returns one result with a
\* title, a link and a source
RepositoryStages ==
    /\ agents.discovery = "returns"
    /\ agents.angle_builder = "AngleBuilder"
    /\ agents.pitch_agent = "PitchDraftingAgentV2"
    /\ search.llm = "none"
    /\ search.client.kind \in {"search", "legacy"}
    /\ search.client.fault = "ok"
    /\ search.client.results = <<FullResult>>

\* C18: with the repository's own stages in deterministic mode and a search
\* that returns one result with non-empty title, link and source,
\* process_prospect passes both gates and ends DONE (it does not raise),
\* returning a pitch whose body's first line equals the synthesized anchor.
C18_RepositoryStagesReachDone ==
    RepositoryStages =>
        /\ pc # "raised"
        /\ pc = "done" =>
              /\ result.pitch = PitchDraft(result.pitch.subject_line, result.pitch.body)
              /\ FirstLine(result.pitch.body) = OpeningAnchor(ProspectName, <<"X">>)

----------------------------------------------------------------------------
(* Claims about the deterministic extractor (agents/research_agent.py) *)

\* C19: in deterministic mode an empty result list makes the extractor return
\* (not raise) a LatestPieceAnalysis with confidence "low", the failure reason
\* for no real articles found, every narrative field equal to "N/A" and the
\* anchor equal to the NEEDS_RESEARCH sentinel.
C19_EmptyResultsReturnLowConfidence ==
    (Returned("heuristic_from_results") /\ hits = <<>>) =>
        /\ ret.raised = NoneVal
        /\ ret.value.confidence = "low"
        /\ ret.value.failure_reason = NoArticlesReason
        /\ ret.value.editorial_tension = NA
        /\ ret.value.what_the_piece_left_open = NA
        /\ ret.value.why_life_legally_single_fits = NA
        /\ ret.value.required_opening_anchor = NEEDS_RESEARCH

\* C20: in deterministic mode with non-empty results the extractor looks only
\* at results[0] and returns confidence "high" if and only if that record has
\* a non-empty title, link and source; otherwise confidence is "low" with a
\* failure_reason set; required_opening_anchor is the NEEDS_RESEARCH sentinel
\* exactly when confidence is not high, and otherwise the greeting template
\* containing the title.
C20_HighIffFirstResultComplete ==
    (Returned("heuristic_from_results") /\ hits # <<>>) =>
        LET r0 == hits[1]
            complete == r0.title # <<>> /\ r0.link # <<>> /\ r0.source # <<>>
        IN  /\ ret = heuristic_from_results(<<r0>>, ProspectName)
            /\ ret.raised = NoneVal
            /\ ret.value.confidence = "high" <=> complete
            /\ ~complete => (ret.value.confidence = "low"
                                /\ Truthy(ret.value.failure_reason))
            /\ ret.value.required_opening_anchor = NEEDS_RESEARCH
                  <=> ret.value.confidence # "high"
            /\ ret.value.confidence = "high"
                  => ret.value.required_opening_anchor
                        = OpeningAnchor(ProspectName, r0.title)

\* the analysis find_latest_piece_analysis handed back
FoundAnalysis == Returned("find_latest_piece_analysis") /\ ret.raised = NoneVal

\* C21: every LatestPieceAnalysis returned by find_latest_piece_analysis, in
\* deterministic mode, generative mode and the generative fallback alike, has
\* an empty or NEEDS_RESEARCH anchor whenever its confidence is "low" or its
\* title is "N/A": a real anchor never coexists with low confidence.
C21_LowConfidenceHasNoRealAnchor ==
    FoundAnalysis =>
        ((ret.value.confidence = "low" \/ ret.value.title = NA)
            => ret.value.required_opening_anchor \in {<<>>, NEEDS_RESEARCH})

\* C22: in generative mode, when the generator's reply does not parse or
\* fails schema validation, find_latest_piece_analysis does not raise for any
\* result list, the empty one included: it returns the deterministic-mode
\* output with confidence forced to "low" and failure_reason set to the
\* reason for an invalid generation output.
C22_InvalidReplyFallsBack ==
    (Returned("find_latest_piece_analysis") /\ search.llm = "invalid"
        /\ search.client.kind = "search" /\ search.client.fault = "ok")
    => /\ ret.raised = NoneVal
       /\ ret.value.confidence = "low"
       /\ ret.value.failure_reason = LlmInvalidReason

C27_AdapterFaultBecomesLowConfidence ==
    (Returned("find_latest_piece_analysis") /\ search.client.fault # "ok") =>
        /\ ret.raised = NoneVal
        /\ ret.value.confidence = "low"
        /\ ret.value.failure_reason \notin {NoneVal, <<>>}

----------------------------------------------------------------------------
(* Claims about the angle synthesizer (orchestrator/angle_builder.py) *)

\* C24: in deterministic mode (no generator) build_primary_angle returns one
\* PrimaryAngle whose confidence is "high" for every gate-passed analysis,
\* with tension_hook, why_us and the angle sentence taken from the analysis
\* fields editorial_tension, why_life_legally_single_fits and
\* what_the_piece_left_open.
C24_DeterministicAngleIsGrounded ==
    (Returned("build_primary_angle") /\ llm = "none") =>
        /\ ret.raised = NoneVal
        /\ ret.value.confidence = "high"
        /\ ret.value.tension_hook = piece.editorial_tension
        /\ ret.value.why_us = piece.why_life_legally_single_fits
        /\ ret.value.one_sentence_angle = AnglePrefix \o piece.what_the_piece_left_open

\* an analysis that passes validate_anchor, with a tension of its own, has
\* been turned into an angle
C24_Witness ==
    /\ Returned("build_primary_angle") /\ llm = "none"
    /\ validate_anchor(piece).ok
    /\ piece.editorial_tension = <<"<stakes of the piece>">>
    /\ ret.raised = NoneVal

\* C25: in generative mode, when the generator's reply does not parse or
\* fails PrimaryAngle validation, build_primary_angle does not raise: it
\* returns the deterministic fallback angle with confidence "low", which
\* validate_angle then rejects with low_confidence_angle.
C25_InvalidAngleReplyFallsBack ==
    (Returned("build_primary_angle") /\ llm = "invalid") =>
        /\ ret.raised = NoneVal
        /\ ret.value = GroundedAngle(piece, ParseFailedNote, "low")
        /\ validate_angle(ret.value) = ValidationResult(FALSE, <<"low_confidence_angle">>)

\* C37: every angle that build_primary_angle produces in deterministic mode
\* passes validate_angle, for every analysis (one whose
\* what_the_piece_left_open is empty included): its confidence is high and
\* its trimmed one_sentence_angle has at least 25 characters.
C37_DeterministicAnglePassesGate ==
    (Returned("build_primary_angle") /\ llm = "none") =>
        /\ ret.raised = NoneVal
        /\ ret.value.confidence = "high"
        /\ Len(Strip(ret.value.one_sentence_angle)) >= MinAngleLen
        /\ validate_angle(ret.value) = ValidationResult(TRUE, NoneVal)

\* the angle of an analysis that left nothing open
C37_Witness ==
    /\ Returned("build_primary_angle") /\ llm = "none"
    /\ piece.what_the_piece_left_open = <<>>
    /\ ret.raised = NoneVal /\ validate_angle(ret.value).ok

\* C38: in generative mode every schema-valid generator reply yields an angle
\* with confidence "high" whatever confidence the reply stated, so
\* validate_angle answers low_confidence_angle only for the parse-failure
\* fallback angle, never for a schema-valid generator angle.
C38_ValidReplyIsForcedHigh ==
    (Returned("build_primary_angle") /\ llm \in {"valid", "invalid"}
        /\ payload_serializable(piece)) =>
        /\ ret.raised = NoneVal
        /\ llm = "valid" =>
              /\ ret.value = [angle EXCEPT !.confidence = "high"]
              /\ validate_angle(ret.value).reason # <<"low_confidence_angle">>
        /\ validate_angle(ret.value).reason = <<"low_confidence_angle">>
              => (llm = "invalid" /\ ret.value = GroundedAngle(piece, ParseFailedNote, "low"))

\* a reply that stated confidence "low" came back as a "high" angle
C38_Witness ==
    /\ Returned("build_primary_angle") /\ llm = "valid"
    /\ angle.confidence = "low"
    /\ ret.raised = NoneVal /\ ret.value.confidence = "high"

----------------------------------------------------------------------------
(* Claims about the rate gate (utils/search_client.py) *)

\* C26: with rate_limit > 0, whatever the number of concurrent callers of
\* _throttle, callers pass one at a time (at most one is inside the locked
\* body) and any two consecutive callers leave it at least 60 / rate_limit
\* seconds apart: there is no burst.
C26_NoBurst ==
    throttle.rate_limit > 0 =>
        /\ Cardinality({c \in Callers : throttle.at[c] = "sleep"}) <= 1
        /\ \A i \in 1 .. (Len(throttle.released) - 1) :
               throttle.released[i + 1] - throttle.released[i]
                   >= min_interval(throttle.rate_limit)

\* three callers have passed a gate of 30 per minute, the later ones after
\* queueing behind a sleeping one
C26_Witness ==
    /\ throttle.rate_limit = 30
    /\ Len(throttle.released) = 3
    /\ \A i \in 1 .. 2 :
           throttle.released[i + 1] - throttle.released[i]
               = min_interval(throttle.rate_limit)

\* C34: every request sent to the search provider, from the discovery stage
\* and from the article-search stage (the legacy key-based path included), is
\* admitted through the same rate gate, so two provider requests issued by
\* concurrent prospects are never closer than the minimum interval.
C34_EveryRequestIsGated ==
    throttle.rate_limit > 0 =>
        \A i \in 1 .. (Len(throttle.requests) - 1) :
            throttle.requests[i + 1].at - throttle.requests[i].at
                >= min_interval(throttle.rate_limit)

----------------------------------------------------------------------------
(* Claims about retry_async (utils/retry.py) *)

\* C28: for attempts >= 1, retry_async calls func at most attempts times,
\* stops at the first call that succeeds and returns its value, retries only
\* on exceptions of the listed classes (any other exception propagates at
\* once), and when all attempts calls fail re-raises the exception of the
\* last call.
C28_RetryContract ==
    retry.attempts >= 1 =>
        LET n == Len(retry.calls)
        IN  /\ n <= retry.attempts
            /\ \A i \in 1 .. (n - 1) : retry.calls[i] = "listed"
            /\ retry.at = "returned"
                   => n >= 1 /\ retry.calls[n] = "ok" /\ retry.outcome = Value(n)
            /\ retry.at = "raised"
                   => /\ n >= 1 /\ retry.outcome = Exc(n)
                      /\ \/ retry.calls[n] = "other"
                         \/ retry.calls[n] = "listed" /\ n = retry.attempts
            /\ (n >= 1 /\ retry.calls[n] # "listed")
                   => retry.at \in {"returned", "raised"}

\* three attempts allowed: two listed failures, then a success whose value is
\* returned
C28_Witness ==
    /\ retry.attempts = MaxAttempts
    /\ retry.calls = <<"listed", "listed", "ok">>
    /\ retry.at = "returned" /\ retry.outcome = Value(3)

\* C32: retry_async sleeps only between attempts (never after the last
\* failed attempt, so at most attempts - 1 sleeps), the first wait is
\* initial_wait, each later wait is double the previous one capped at
\* max_wait, and no wait exceeds max_wait, for any initial_wait and max_wait.
C32_BackoffWithinMaxWait ==
    LET n == Len(retry.sleeps)
    IN  /\ retry.attempts >= 1 => n <= retry.attempts - 1
        /\ n <= Len(retry.calls)
        /\ (retry.at \in {"returned", "raised"} /\ retry.calls # <<>>)
               => n = Len(retry.calls) - 1
        /\ n >= 1 => retry.sleeps[1] = retry.initial_wait
        /\ \A i \in 1 .. (n - 1) :
               retry.sleeps[i + 1] = min(retry.sleeps[i] * 2, retry.max_wait)
        /\ \A i \in 1 .. n : retry.sleeps[i] <= retry.max_wait

\* C40: the final RuntimeError of retry_async is unreachable: for every value
\* of attempts, attempts <= 0 included, retry_async either returns the result
\* of func or re-raises an exception raised by func.
C40_OwnRuntimeErrorUnreachable ==
    /\ retry.outcome # OwnRuntimeError
    /\ retry.at = "returned" => retry.outcome = Value(Len(retry.calls))
    /\ retry.at = "raised" => retry.outcome = Exc(Len(retry.calls))

====
